---- MODULE Spec2Model ----
(***************************************************************************)
(* Model of pypuf/studies/breaking_lightweight_secure/attack_runtime.py:   *)
(* the duration formatter (round_time, time_to_string), the run-time table *)
(* of AttackRuntimeStudy.gen_table and the experiment matrix of            *)
(* AttackRuntimeStudy.experiments.                                         *)
(*                                                                         *)
(* Numbers.  A Python float that holds a duration is modelled as an exact  *)
(* rational <<num, den>> (den > 0, lowest terms).  The success rate and    *)
(* its reciprocal are modelled as IEEE-754 doubles (see the section on     *)
(* doubles), because math.ceil turns their rounding error into a whole     *)
(* extra try.  Accuracies are hundredths (0.98 is 98).                     *)
(***************************************************************************)
EXTENDS Integers, Sequences, FiniteSets, Bags, TLC

VARIABLES
  seconds,      \* formatter: the duration handed to round_time / time_to_string
  rounded,      \* formatter: <<>> or the value round_time returned
  text,         \* formatter: <<>> or <<the string time_to_string returned>>
  results,      \* study: the experimenter's result table, a bag of rows
  table,        \* study: <<>> before plot(), then what gen_table produced
  i,            \* experiments(): the outer loop index
  experiments,  \* experiments(): the local list under construction
  returned      \* experiments(): <<>> or <<the list the last call returned>>

vars == <<seconds, rounded, text, results, table, i, experiments, returned>>

fmtVars == <<seconds, rounded, text>>
studyVars == <<results, table>>
expVars == <<i, experiments, returned>>

(***************************************************************************)
(* Rationals                                                               *)
(***************************************************************************)
RECURSIVE GCD(_, _)
GCD(a, b) == IF b = 0 THEN a ELSE GCD(b, a % b)

Rat(a, b) == LET g == GCD(a, b) IN IF g = 0 THEN <<0, 1>> ELSE <<a \div g, b \div g>>
RatInt(n) == <<n, 1>>
RatEq(x, y) == x[1] * y[2] = y[1] * x[2]
RatGT(x, y) == x[1] * y[2] > y[1] * x[2]
RatLE(x, y) == x[1] * y[2] <= y[1] * x[2]
RatAdd(x, y) == Rat(x[1] * y[2] + y[1] * x[2], x[2] * y[2])
RatMulInt(x, n) == Rat(x[1] * n, x[2])
RatIsInt(x) == x[1] % x[2] = 0
RatFloor(x) == x[1] \div x[2]

\* Python's round(a / b) for integers a >= 0, b > 0: ties go to the even integer.
RoundHalfEven(a, b) ==
  LET q == a \div b
      r == a % b
  IN  IF 2 * r < b THEN q
      ELSE IF 2 * r > b THEN q + 1
      ELSE IF q % 2 = 0 THEN q ELSE q + 1

(***************************************************************************)
(* IEEE-754 doubles, for `len(successful_runs) / len(sel)` and             *)
(* `1 / success_rate`.  A positive double is [m |-> <<hi, lo>>, e |-> e],  *)
(* the value (hi * 2^27 + lo) * 2^e with 2^52 <= hi * 2^27 + lo < 2^53;    *)
(* zero is DoubleZero.  Division is correctly rounded, ties to even, as    *)
(* the hardware division CPython uses.                                     *)
(***************************************************************************)
LIMB == 2^27
HI_ONE == 2^25       \* the high limb of the mantissa 2^52

RECURSIVE Pow2(_)
Pow2(n) == IF n = 0 THEN 1 ELSE 2 * Pow2(n - 1)

DoubleZero == [m |-> <<0, 0>>, e |-> 0]

BigGE(x, y) == x[1] > y[1] \/ (x[1] = y[1] /\ x[2] >= y[2])
BigSub(x, y) ==
  IF x[2] >= y[2] THEN <<x[1] - y[1], x[2] - y[2]>>
  ELSE <<x[1] - y[1] - 1, x[2] + LIMB - y[2]>>
\* 2 * x + bit
BigDouble(x, bit) ==
  LET lo == 2 * x[2] + bit
  IN  IF lo >= LIMB THEN <<2 * x[1] + 1, lo - LIMB>> ELSE <<2 * x[1], lo>>

\* Long division for 1 <= num / den < 2: q holds the quotient bits so far and r
\* the remainder; the mantissa is complete when q has 53 bits (q >= 2^52).
RECURSIVE DivBits(_, _, _)
DivBits(q, r, den) ==
  IF q[1] >= HI_ONE THEN [q |-> q, r |-> r]
  ELSE LET r2 == BigDouble(r, 0)
       IN  IF BigGE(r2, den)
           THEN DivBits(BigDouble(q, 1), BigSub(r2, den), den)
           ELSE DivBits(BigDouble(q, 0), r2, den)

\* numer / denom (in [1, 2)) rounded to a double whose 53 quotient bits weigh 2^ex
RoundedQuotient(numer, denom, ex) ==
  LET d == DivBits(<<0, 1>>, BigSub(numer, denom), denom)
      twice == BigDouble(d.r, 0)
      up == IF twice = denom THEN d.q[2] % 2 = 1 ELSE BigGE(twice, denom)
      inc == IF d.q[2] + 1 = LIMB THEN <<d.q[1] + 1, 0>> ELSE <<d.q[1], d.q[2] + 1>>
  IN  IF ~up THEN [m |-> d.q, e |-> ex]
      ELSE IF inc[1] = 2 * HI_ONE THEN [m |-> <<HI_ONE, 0>>, e |-> ex + 1]
      ELSE [m |-> inc, e |-> ex]

\* a / b as 2^s * (a2 / b2) with 1 <= a2 / b2 < 2
RECURSIVE Normalise(_, _, _)
Normalise(na, nb, ns) ==
  IF na < nb THEN Normalise(2 * na, nb, ns - 1)
  ELSE IF na >= 2 * nb THEN Normalise(na, 2 * nb, ns + 1)
  ELSE [a |-> na, b |-> nb, s |-> ns]

\* float(a) / float(b) for integers a >= 0, b > 0
DoubleDivInt(a, b) ==
  IF a = 0 THEN DoubleZero
  ELSE LET n == Normalise(a, b, 0)
       IN  RoundedQuotient(<<0, n.a>>, <<0, n.b>>, n.s - 52)

\* 1 / x for a double x > 0
DoubleRecip(x) ==
  IF x.m = <<HI_ONE, 0>> THEN [m |-> x.m, e |-> 0 - x.e - 104]
  ELSE RoundedQuotient(<<2 * HI_ONE, 0>>, x.m, 0 - x.e - 105)

DoubleIsPositive(x) == x.m # <<0, 0>>

\* math.ceil(x) for a double x > 0 below 2^26
DoubleCeil(x) ==
  LET sh == 0 - x.e IN
  IF sh <= 0 THEN (x.m[1] * LIMB + x.m[2]) * Pow2(0 - sh)
  ELSE IF sh >= 53 THEN 1
  ELSE IF sh >= 27
       THEN LET p == Pow2(sh - 27)
            IN  (x.m[1] \div p) + (IF x.m[1] % p # 0 \/ x.m[2] # 0 THEN 1 ELSE 0)
       ELSE LET p == Pow2(sh)
            IN  x.m[1] * Pow2(27 - sh) + (x.m[2] \div p) + (IF x.m[2] % p # 0 THEN 1 ELSE 0)

(***************************************************************************)
(* Duration formatter                                                      *)
(***************************************************************************)
FOUR_DAYS == 4 * 24 * 60 * 60

\* the list `units` of round_time
units == <<FOUR_DAYS, 1>>

\* seconds // u * u
FloorToUnit(s, u) == RatInt((s[1] \div (s[2] * u)) * u)

RECURSIVE round_time_loop(_, _)
round_time_loop(s, idx) ==
  IF idx > Len(units) THEN s
  ELSE IF RatGT(s, RatInt(units[idx])) THEN FloorToUnit(s, units[idx])
  ELSE round_time_loop(s, idx + 1)

round_time(s) == round_time_loop(s, 1)

\* datetime.timedelta(seconds=s), s >= 0: normalised to days, seconds and
\* microseconds, the fraction rounded half-even to a microsecond.
timedelta(s) ==
  LET whole == s[1] \div s[2]
      us    == RoundHalfEven((s[1] % s[2]) * 1000000, s[2])
      w     == IF us = 1000000 THEN whole + 1 ELSE whole
  IN  [days |-> w \div 86400, seconds |-> w % 86400,
       microseconds |-> IF us = 1000000 THEN 0 ELSE us]

\* delta.total_seconds() > bound, bound a whole number of seconds
total_seconds_gt(delta, bound) ==
  LET whole == delta.days * 86400 + delta.seconds
  IN  whole > bound \/ (whole = bound /\ delta.microseconds > 0)

\* '%i' % n, '%2i' % n and '%02i' % n for n >= 0
Fmt_i(n) == ToString(n)
Fmt_2i(n) == IF n < 10 THEN " " \o ToString(n) ELSE ToString(n)
Fmt_02i(n) == IF n < 10 THEN "0" \o ToString(n) ELSE ToString(n)

DaysLabel(d) == Fmt_i(d) \o " days"
MinSecLabel(m, s) == Fmt_2i(m) \o "m " \o Fmt_02i(s) \o "s"
HourMinLabel(h, m) == Fmt_2i(h) \o "h " \o Fmt_02i(m) \o "m"

\* time_to_string with the minutes of the hours form floored instead of rounded
time_to_string_floor_minutes(delta) ==
  IF total_seconds_gt(delta, FOUR_DAYS)
  THEN DaysLabel(delta.days)
  ELSE LET hours == delta.seconds \div 3600 IN
       IF 24 * delta.days + hours = 0
       THEN LET minutes == (delta.seconds - (3600 * hours)) \div 60
                secs == delta.seconds - (3600 * hours) - (60 * minutes)
            IN  MinSecLabel(minutes, secs)
       ELSE LET minutes == (delta.seconds - (3600 * hours)) \div 60
            IN  HourMinLabel(24 * delta.days + hours, minutes)

time_to_string(delta) ==
  IF total_seconds_gt(delta, FOUR_DAYS)
  THEN DaysLabel(delta.days)
  ELSE LET hours == delta.seconds \div 3600 IN
       IF 24 * delta.days + hours = 0
       THEN LET minutes == (delta.seconds - (3600 * hours)) \div 60
                secs == delta.seconds - (3600 * hours) - (60 * minutes)
            IN  MinSecLabel(minutes, secs)
       ELSE LET minutes == RoundHalfEven(delta.seconds - (3600 * hours), 60)
            IN  HourMinLabel(24 * delta.days + hours, minutes)

\* time_to_string(timedelta(seconds=round_time(x))), as gen_table renders a cell
RenderDuration(x) == time_to_string(timedelta(round_time(x)))

(***************************************************************************)
(* AttackRuntimeStudy: static configuration                                *)
(***************************************************************************)
\* LTFArray.<transform>.__name__
transform_atf == "transform_atf"
transform_lightweight_secure == "transform_lightweight_secure"
transform_fixed_permutation == "transform_fixed_permutation"

NICE_ATTACK_NAMES == [lr |-> "LR", corr |-> "Correlation Attack"]
NICE_TRANSFORM_NAMES ==
  [transform_atf |-> "Classic",
   transform_lightweight_secure |-> "Lightweight Secure",
   transform_fixed_permutation |-> "Permutation-Based"]

SAMPLES_PER_ENTRY == 1000

\* TableEntryParameters(n, k, N, ...); plot_layout and label only reach the plot
PARAMETERS ==
  << [n |-> 64, k |-> 5, N |-> 300000],
     [n |-> 64, k |-> 6, N |-> 1000000],
     [n |-> 64, k |-> 7, N |-> 2000000],
     [n |-> 128, k |-> 4, N |-> 1000000],
     [n |-> 128, k |-> 5, N |-> 2000000] >>

TRANSFORMATIONS ==
  <<transform_atf, transform_lightweight_secure, transform_fixed_permutation>>

\* self.success_threshold = .98, in hundredths
success_threshold == 98

\* the local list `columns` of gen_table
columns ==
  << [attack |-> "lr", transformation |-> transform_atf],
     [attack |-> "lr", transformation |-> transform_lightweight_secure],
     [attack |-> "corr", transformation |-> transform_lightweight_secure],
     [attack |-> "lr", transformation |-> transform_fixed_permutation] >>

(***************************************************************************)
(* experiments                                                             *)
(***************************************************************************)
SEED_INSTANCE == 314159
SEED_MODEL == 265358
SEED_CHALLENGE == 979323
SEED_DISTANCE == 846264

combiner_xor == "combiner_xor"

\* common_parameters with the model seed taken from the instance seed's base
common_parameters_shared_base(idx, p) ==
  [n |-> p.n, k |-> p.k, N |-> p.N,
   seed_instance |-> SEED_INSTANCE + idx,
   seed_model |-> SEED_INSTANCE + idx,
   seed_challenge |-> SEED_CHALLENGE + idx,
   seed_distance |-> SEED_DISTANCE + idx,
   mini_batch_size |-> 0,
   convergence_decimals |-> 2,
   shuffle |-> FALSE]

\* lines 192-203
common_parameters(idx, p) ==
  [n |-> p.n, k |-> p.k, N |-> p.N,
   seed_instance |-> SEED_INSTANCE + idx,
   seed_model |-> SEED_MODEL + idx,
   seed_challenge |-> SEED_CHALLENGE + idx,
   seed_distance |-> SEED_DISTANCE + idx,
   mini_batch_size |-> 0,
   convergence_decimals |-> 2,
   shuffle |-> FALSE]

\* f with the field name added: Parameters(**f, name=value)
With(f, name, value) ==
  [x \in (DOMAIN f) \cup {name} |-> IF x = name THEN value ELSE f[x]]

\* lines 204-210
ExperimentCorrelationAttack(idx, p) ==
  [experiment |-> "ExperimentCorrelationAttack",
   parameters |-> With(common_parameters(idx, p), "lr_iteration_limit", 1000)]

\* lines 213-220
ExperimentLogisticRegression(idx, p, transform) ==
  [experiment |-> "ExperimentLogisticRegression",
   parameters |-> With(With(common_parameters(idx, p), "transformation", transform),
                       "combiner", combiner_xor)]

\* ParameterPass with the correlation attack appended after the regressions
ParameterPass_lr_first(idx, p) ==
  [t \in 1..Len(TRANSFORMATIONS) |-> ExperimentLogisticRegression(idx, p, TRANSFORMATIONS[t])]
    \o <<ExperimentCorrelationAttack(idx, p)>>

\* lines 192-221: what one pass of the loop over PARAMETERS appends
ParameterPass(idx, p) ==
  <<ExperimentCorrelationAttack(idx, p)>>
    \o [t \in 1..Len(TRANSFORMATIONS) |-> ExperimentLogisticRegression(idx, p, TRANSFORMATIONS[t])]

\* lines 191-221: what one pass of the loop over range(SAMPLES_PER_ENTRY) appends
RECURSIVE SamplePass(_, _)
SamplePass(idx, r) ==
  IF r > Len(PARAMETERS) THEN <<>>
  ELSE ParameterPass(idx, PARAMETERS[r]) \o SamplePass(idx, r + 1)

\* lines 190-222: what the passes from..(to - 1) append, in order
RECURSIVE SampleLoop(_, _)
SampleLoop(from, to) ==
  IF from >= to THEN <<>>
  ELSE IF to = from + 1 THEN SamplePass(from, 1)
  ELSE SampleLoop(from, (from + to) \div 2) \o SampleLoop((from + to) \div 2, to)

(***************************************************************************)
(* The result table.  A row of the experimenter's DataFrame is a record    *)
(* [n, k, N, experiment, transformation, accuracy, measured_time]; the     *)
(* table is a bag of rows (gen_table never depends on the row order).      *)
(***************************************************************************)
len(B) == BagCardinality(B)

\* frame[mask]: the rows of B that lie in the set S
Where(B, S) == [r \in (DOMAIN B) \cap S |-> B[r]]

RECURSIVE SumTime(_)
SumTime(B) ==
  IF DOMAIN B = {} THEN 0
  ELSE LET r == CHOOSE x \in DOMAIN B : TRUE
       IN  B[r] * r.measured_time + SumTime([x \in (DOMAIN B) \ {r} |-> B[x]])

\* frame['measured_time'].mean() of a non-empty frame
mean(B) == Rat(SumTime(B), len(B))

(***************************************************************************)
(* gen_table                                                               *)
(***************************************************************************)
MaxRows == 2         \* rows in the result table of the study run
MaxCellRows == 49    \* rows in the result table when they all fall in one cell

MaxSel == IF MaxCellRows > MaxRows THEN MaxCellRows ELSE MaxRows

\* success_rate = len(successful_runs) / len(sel)
success_rate_of(n_success, n_sel) == DoubleDivInt(n_success, n_sel)

\* expected_tries_till_success = ceil(1 / success_rate), success_rate > 0
expected_tries(rate) == DoubleCeil(DoubleRecip(rate))

\* The two quotients above for every pair of lengths a frame of the model can
\* have, computed once.
RateTable ==
  [n_sel \in 1..MaxSel |->
     [n_success \in 0..n_sel |->
        LET rate == success_rate_of(n_success, n_sel)
        IN  [success_rate |-> rate,
             tries |-> IF DoubleIsPositive(rate) THEN expected_tries(rate) ELSE 0]]]

\* Select with the regression rows not compared with the column's transformation
Select_any_transformation(res, p, col) ==
  LET config == {r \in DOMAIN res : r.n = p.n /\ r.k = p.k /\ r.N = p.N}
  IN  IF col.attack = "corr"
      THEN Where(res, {r \in config : r.experiment = "ExperimentCorrelationAttack"})
      ELSE Where(res, {r \in config : r.experiment = "ExperimentLogisticRegression"})

\* lines 140-145: the rows of one cell
Select(res, p, col) ==
  LET config == {r \in DOMAIN res : r.n = p.n /\ r.k = p.k /\ r.N = p.N}
  IN  IF col.attack = "corr"
      THEN Where(res, {r \in config : r.experiment = "ExperimentCorrelationAttack"})
      ELSE Where(res, {r \in config : /\ r.transformation = col.transformation
                                       /\ r.experiment = "ExperimentLogisticRegression"})

\* successful with the threshold itself counted as a success
successful_at_threshold(sel) == Where(sel, {r \in DOMAIN sel : r.accuracy >= success_threshold})

successful(sel) == Where(sel, {r \in DOMAIN sel : r.accuracy > success_threshold})
failed(sel) == Where(sel, {r \in DOMAIN sel : r.accuracy <= success_threshold})

NoEstimate == <<>>

\* lines 155-161: expected_time_till_success
expected_time(sel, successful_runs, failed_runs, quotients) ==
  IF DoubleIsPositive(quotients.success_rate)
  THEN RatAdd(RatMulInt(IF failed_runs # EmptyBag THEN mean(failed_runs) ELSE RatInt(0),
                        quotients.tries - 1),
              mean(successful_runs))
  ELSE RatMulInt(mean(sel), len(sel))

marker == ""

\* lines 165-170: the LaTeX of a cell with data
CellLatex(positive, duration) ==
  IF positive THEN duration \o marker
  ELSE "(" \o duration \o ")${}^\\ast$" \o marker

EstimatedCell(sel, positive, expected_time_till_success) ==
  [raised |-> "", sel |-> sel,
   expected_time_till_success |-> expected_time_till_success,
   latex |-> CellLatex(positive, RenderDuration(expected_time_till_success))]

EstimateWith(sel, quotients) ==
  EstimatedCell(sel, DoubleIsPositive(quotients.success_rate),
                expected_time(sel, successful(sel), failed(sel), quotients))

\* lines 149-170: the estimate of a cell and its LaTeX.  `raised` names the
\* exception the lines raise ("" when they raise none): line 151 divides by
\* len(sel).
Estimate(sel) ==
  IF len(sel) = 0
  THEN [raised |-> "ZeroDivisionError", sel |-> sel,
        expected_time_till_success |-> NoEstimate, latex |-> ""]
  ELSE EstimateWith(sel, RateTable[len(sel)][len(successful(sel))])

\* CellOf without the test for an empty selection
CellOf_unguarded(sel) == Estimate(sel)

\* lines 146-170: the cell of the selected rows
CellOf(sel) ==
  IF sel = EmptyBag
  THEN [raised |-> "", sel |-> sel,
        expected_time_till_success |-> NoEstimate, latex |-> "no data yet"]
  ELSE Estimate(sel)

\* lines 140-170: one pass of the loop over `columns`
Cell(res, p, col) == CellOf(Select(res, p, col))

\* lines 138-170: column_latex of one row; an exception ends the loop
RECURSIVE ColumnLoop(_, _, _, _)
ColumnStep(res, p, c, column_latex, cell) ==
  IF cell.raised # "" THEN [raised |-> cell.raised, cells |-> column_latex]
  ELSE ColumnLoop(res, p, c + 1, Append(column_latex, cell))

ColumnLoop(res, p, c, column_latex) ==
  IF c > Len(columns) THEN [raised |-> "", cells |-> column_latex]
  ELSE ColumnStep(res, p, c, column_latex, Cell(res, p, columns[c]))

\* lines 136-172: the rows of the table; an exception ends the loop
RECURSIVE RowLoop(_, _, _)
RowStep(res, r, rows, p, row) ==
  IF row.raised # "" THEN [raised |-> row.raised, rows |-> rows]
  ELSE RowLoop(res, r + 1,
               Append(rows, [n |-> p.n, k |-> p.k, N |-> p.N, cells |-> row.cells]))

RowLoop(res, r, rows) ==
  IF r > Len(PARAMETERS) THEN [raised |-> "", rows |-> rows]
  ELSE RowStep(res, r, rows, PARAMETERS[r], ColumnLoop(res, PARAMETERS[r], 1, <<>>))

\* lines 125-135: the two header lines, one pair of names per column
Header ==
  [c \in 1..Len(columns) |->
     <<NICE_ATTACK_NAMES[columns[c].attack] \o " on",
       NICE_TRANSFORM_NAMES[columns[c].transformation]>>]

\* lines 174-179: the table is written; when an exception was raised nothing
\* is written and `raised` names it.
WriteTable(body) ==
  IF body.raised # "" THEN [raised |-> body.raised, header |-> <<>>, rows |-> <<>>]
  ELSE [raised |-> "", header |-> Header, rows |-> body.rows]

gen_table(res) == WriteTable(RowLoop(res, 1, <<>>))

(***************************************************************************)
(* Specification of the formatter: a duration is drawn, round_time and     *)
(* time_to_string are applied to it.                                       *)
(***************************************************************************)
MaxSeconds == 694800      \* whole-second durations 0..MaxSeconds (8 days + 1 hour)
MaxHours == 300           \* whole-hour durations up to MaxHours hours
MaxSubSecond == 3         \* durations n/den below MaxSubSecond seconds
Denominators == {2, 3, 4}

Durations ==
  {RatInt(n) : n \in 0..MaxSeconds}
    \cup {RatInt(3600 * h) : h \in 0..MaxHours}
    \cup {Rat(n, d) : n \in 0..(MaxSubSecond * 4), d \in Denominators}
    \cup {Rat(FOUR_DAYS * d + n, d) : n \in 0..4, d \in Denominators}

IdleStudy == results = EmptyBag /\ table = <<>>
IdleExperiments == i = 0 /\ experiments = <<>> /\ returned = <<>>

InitFormat ==
  /\ seconds \in Durations
  /\ rounded = <<>>
  /\ text = <<>>
  /\ IdleStudy
  /\ IdleExperiments

RoundTime ==
  /\ rounded = <<>>
  /\ text = <<>>
  /\ rounded' = round_time(seconds)
  /\ UNCHANGED <<seconds, text, studyVars, expVars>>

TimeToString ==
  /\ text = <<>>
  /\ text' = <<time_to_string(timedelta(IF rounded = <<>> THEN seconds ELSE rounded))>>
  /\ UNCHANGED <<seconds, rounded, studyVars, expVars>>

NextFormat == RoundTime \/ TimeToString

SpecFormat == InitFormat /\ [][NextFormat]_vars

(***************************************************************************)
(* Specification of a study run: the experimenter records the outcome of   *)
(* trials that experiments() describes, then plot() generates the table    *)
(* from the results (and hands them to the external plot).                 *)
(***************************************************************************)
\* hundredths: at the threshold (no success) and above it (a success)
Accuracies == {success_threshold, success_threshold + 1}
MeasuredTimes == {50, 7200}  \* seconds

\* A trial's row: its parameters n, k, N, its experiment class and, when the
\* parameters name one, its transformation ("nan" in the DataFrame otherwise).
ResultKinds ==
  {[n |-> e.parameters.n, k |-> e.parameters.k, N |-> e.parameters.N,
    experiment |-> e.experiment,
    transformation |-> IF "transformation" \in DOMAIN e.parameters
                       THEN e.parameters.transformation ELSE "nan"] :
     e \in {SamplePass(0, 1)[x] : x \in 1..Len(SamplePass(0, 1))}}

Rows ==
  {[n |-> kind.n, k |-> kind.k, N |-> kind.N, experiment |-> kind.experiment,
    transformation |-> kind.transformation, accuracy |-> a, measured_time |-> t] :
     kind \in ResultKinds, a \in Accuracies, t \in MeasuredTimes}

KindOf(row) ==
  [n |-> row.n, k |-> row.k, N |-> row.N, experiment |-> row.experiment,
   transformation |-> row.transformation]

IdleFormat == seconds = RatInt(0) /\ rounded = <<>> /\ text = <<>>

Init ==
  /\ results = EmptyBag
  /\ table = <<>>
  /\ IdleFormat
  /\ IdleExperiments

\* the experimenter appends the row of a finished trial
Record(row) ==
  /\ table = <<>>
  /\ len(results) < MaxRows
  /\ results' = results (+) SetToBag({row})
  /\ UNCHANGED <<table, fmtVars, expVars>>

\* AttackRuntimeStudy.plot
plot ==
  /\ table = <<>>
  /\ table' = gen_table(results)
  /\ UNCHANGED <<results, fmtVars, expVars>>

Next == (\E row \in Rows : Record(row)) \/ plot

Spec == Init /\ [][Next]_vars

(***************************************************************************)
(* Specification of a study run whose trials all belong to one cell of the *)
(* table, so that the cell grows large.                                    *)
(***************************************************************************)
CellKinds ==
  {kind \in ResultKinds : kind.n = PARAMETERS[1].n /\ kind.k = PARAMETERS[1].k
                            /\ kind.N = PARAMETERS[1].N
                            /\ kind.experiment = "ExperimentCorrelationAttack"}

RecordCell(row) ==
  /\ table = <<>>
  /\ len(results) < MaxCellRows
  /\ KindOf(row) \in CellKinds
  /\ \A r \in DOMAIN results : KindOf(r) = KindOf(row)
  /\ results' = results (+) SetToBag({row})
  /\ UNCHANGED <<table, fmtVars, expVars>>

NextCell == (\E row \in Rows : RecordCell(row)) \/ plot

SpecCell == Init /\ [][NextCell]_vars

(***************************************************************************)
(* Specification of experiments().  The outer loop is taken one pass at a  *)
(* time, or from its first pass to its last without a stop; then the list  *)
(* is returned.  The method is called again and again; `returned` keeps    *)
(* the list the previous call returned.                                    *)
(***************************************************************************)
InitExperiments ==
  /\ i = 0
  /\ experiments = <<>>
  /\ returned = <<>>
  /\ IdleFormat
  /\ IdleStudy

\* one pass of `for i in range(self.SAMPLES_PER_ENTRY)`
ExperimentsPass ==
  /\ i < SAMPLES_PER_ENTRY
  /\ experiments' = experiments \o SamplePass(i, 1)
  /\ i' = i + 1
  /\ UNCHANGED <<returned, fmtVars, studyVars>>

\* the whole of `for i in range(self.SAMPLES_PER_ENTRY)`
ExperimentsLoop ==
  /\ i = 0
  /\ experiments = <<>>
  /\ experiments' = SampleLoop(0, SAMPLES_PER_ENTRY)
  /\ i' = SAMPLES_PER_ENTRY
  /\ UNCHANGED <<returned, fmtVars, studyVars>>

\* `return experiments`; the next call starts with a fresh list
ExperimentsReturn ==
  /\ i = SAMPLES_PER_ENTRY
  /\ returned' = <<experiments>>
  /\ experiments' = <<>>
  /\ i' = 0
  /\ UNCHANGED <<fmtVars, studyVars>>

NextExperiments == ExperimentsPass \/ ExperimentsLoop \/ ExperimentsReturn

SpecExperiments == InitExperiments /\ [][NextExperiments]_vars

(***************************************************************************)
(* Properties                                                              *)
(***************************************************************************)
Succeeded(row) == row.accuracy > success_threshold
Successes(cell) == Where(cell, {row \in DOMAIN cell : Succeeded(row)})
Failures(cell) == Where(cell, {row \in DOMAIN cell : ~Succeeded(row)})
CeilDiv(a, b) == (a + b - 1) \div b
AttackOf(row) == IF row.experiment = "ExperimentCorrelationAttack" THEN "corr" ELSE "lr"
SameConfiguration(row, p) == row.n = p.n /\ row.k = p.k /\ row.N = p.N
Written == table # <<>> /\ table.raised = ""
CellsOf(t) == {t.rows[r].cells[c] : r \in 1..Len(t.rows), c \in 1..Len(columns)}
LowerBoundLatex(duration) == "(" \o duration \o ")${}^\\ast$"
WholeUpToFourDays == RatIsInt(seconds) /\ seconds[1] <= FOUR_DAYS

\* C1: in every cell with at least one successful trial the estimate is
\* (expected_tries - 1) * mean_failure_time + mean_success_time with
\* expected_tries = ceil(|cell| / |successes|), mean_failure_time being 0 when
\* no trial failed.
C1_ExpectedSecondsFormula ==
  table # <<>> =>
    \A cell \in CellsOf(table) :
      len(Successes(cell.sel)) > 0 =>
        cell.expected_time_till_success =
          RatAdd(RatMulInt(IF Failures(cell.sel) = EmptyBag THEN RatInt(0)
                           ELSE mean(Failures(cell.sel)),
                           CeilDiv(len(cell.sel), len(Successes(cell.sel))) - 1),
                 mean(Successes(cell.sel)))

\* C2: a non-empty cell is the lower-bound fallback exactly when none of its
\* trials succeeded: then the estimate is mean * |cell|, the total time of the
\* cell, and the duration is rendered in parentheses with the marker; with a
\* success the rendered duration carries neither.
C2_LowerBoundFallback ==
  table # <<>> =>
    \A cell \in CellsOf(table) :
      cell.sel # EmptyBag =>
        IF \A row \in DOMAIN cell.sel : ~Succeeded(row)
        THEN /\ cell.expected_time_till_success = RatInt(SumTime(cell.sel))
             /\ cell.expected_time_till_success = RatMulInt(mean(cell.sel), len(cell.sel))
             /\ cell.latex = LowerBoundLatex(RenderDuration(RatInt(SumTime(cell.sel))))
        ELSE cell.latex = RenderDuration(cell.expected_time_till_success)

C2_Witness ==
  /\ Written
  /\ \E cell \in CellsOf(table) :
       /\ len(cell.sel) = 2
       /\ \A row \in DOMAIN cell.sel : ~Succeeded(row)
       /\ cell.latex = "( 4h 00m)${}^\\ast$"

\* C3: a duration of more than 4 days is rounded to a whole multiple of 4 days,
\* and the rounded value is rendered as "<days> days".
C3_OverFourDaysRendersDays ==
  (RatGT(seconds, RatInt(FOUR_DAYS)) /\ rounded # <<>>) =>
    /\ RatIsInt(rounded)
    /\ rounded[1] % FOUR_DAYS = 0
    /\ text # <<>> => \E d \in 0..(rounded[1] \div 86400) : text[1] = DaysLabel(d)

\* C4 as claimed: the rows of a cell are the rows of the configuration whose
\* attack kind and transformation both equal the column's.
C4_RowsMatchAttackAndTransformation ==
  Written =>
    \A r \in 1..Len(PARAMETERS) : \A c \in 1..Len(columns) :
      table.rows[r].cells[c].sel =
        Where(results, {row \in DOMAIN results :
                          /\ SameConfiguration(row, PARAMETERS[r])
                          /\ AttackOf(row) = columns[c].attack
                          /\ row.transformation = columns[c].transformation})

\* C4 as amended: the rows of a cell are the rows of the configuration whose
\* attack kind equals the column's and, in an 'lr' column, whose transformation
\* equals the column's; the 'corr' column takes every correlation-attack row
\* of the configuration, whatever its transformation field holds.
C4_RowsMatchColumn ==
  Written =>
    \A r \in 1..Len(PARAMETERS) : \A c \in 1..Len(columns) :
      table.rows[r].cells[c].sel =
        Where(results, {row \in DOMAIN results :
                          /\ SameConfiguration(row, PARAMETERS[r])
                          /\ AttackOf(row) = columns[c].attack
                          /\ columns[c].attack = "lr" =>
                               row.transformation = columns[c].transformation})

C4_Witness ==
  /\ Written
  /\ \E r \in 1..Len(PARAMETERS) : \E c \in 1..Len(columns) : \E d \in 1..Len(columns) :
       /\ columns[c].attack = "corr"
       /\ columns[d].attack = "lr"
       /\ len(table.rows[r].cells[c].sel) = 1
       /\ len(table.rows[r].cells[d].sel) = 1
       /\ len(results) = 2

\* C5: gen_table raises no error for any result set; the table has one row per
\* entry of PARAMETERS in order, each with one cell per column in order, and a
\* cell without matching rows is the placeholder "no data yet".
C5_TableAlwaysComplete ==
  table # <<>> =>
    /\ table.raised = ""
    /\ Len(table.rows) = Len(PARAMETERS)
    /\ \A r \in 1..Len(PARAMETERS) :
         /\ SameConfiguration(table.rows[r], PARAMETERS[r])
         /\ Len(table.rows[r].cells) = Len(columns)
         /\ \A c \in 1..Len(columns) :
              LET matching == {row \in DOMAIN results :
                                 /\ SameConfiguration(row, PARAMETERS[r])
                                 /\ AttackOf(row) = columns[c].attack
                                 /\ columns[c].attack = "lr" =>
                                      row.transformation = columns[c].transformation}
              IN  /\ DOMAIN table.rows[r].cells[c].sel = matching
                  /\ (matching = {}) <=> (table.rows[r].cells[c].latex = "no data yet")

C5_Witness ==
  /\ Written
  /\ \E r \in 1..Len(PARAMETERS) :
       /\ table.rows[r].cells[1].latex = "no data yet"
       /\ table.rows[r].cells[2].latex # "no data yet"
       /\ table.rows[r].cells[3].latex = "no data yet"
       /\ table.rows[r].cells[4].latex # "no data yet"

\* C6: experiments() returns SAMPLES_PER_ENTRY * |PARAMETERS| * (1 + |TRANSFORMATIONS|)
\* trials, repetition-major, then by configuration; each block starts with the
\* correlation attack and continues with one regression per transformation in
\* order, all with the configuration's (n, k, N) and the four seeds of the
\* repetition; a second call returns the same list.
C6_ExperimentsMatrix ==
  i = SAMPLES_PER_ENTRY =>
    LET block == 1 + Len(TRANSFORMATIONS)
        perRepetition == Len(PARAMETERS) * block
    IN  /\ Len(experiments) = SAMPLES_PER_ENTRY * Len(PARAMETERS) * block
        /\ \A x \in 1..Len(experiments) :
             LET e == experiments[x]
                 repetition == (x - 1) \div perRepetition
                 p == PARAMETERS[((x - 1) % perRepetition) \div block + 1]
                 variant == (x - 1) % block
             IN  /\ e.parameters.n = p.n /\ e.parameters.k = p.k /\ e.parameters.N = p.N
                 /\ e.parameters.seed_instance = SEED_INSTANCE + repetition
                 /\ e.parameters.seed_model = SEED_MODEL + repetition
                 /\ e.parameters.seed_challenge = SEED_CHALLENGE + repetition
                 /\ e.parameters.seed_distance = SEED_DISTANCE + repetition
                 /\ IF variant = 0
                    THEN e.experiment = "ExperimentCorrelationAttack"
                    ELSE /\ e.experiment = "ExperimentLogisticRegression"
                         /\ e.parameters.transformation = TRANSFORMATIONS[variant]
        /\ returned # <<>> => experiments = returned[1]

C6_Witness ==
  /\ i = SAMPLES_PER_ENTRY
  /\ returned # <<>>
  /\ Len(returned[1]) = 20000
  /\ experiments[20000].parameters.transformation = transform_fixed_permutation

\* C7: no seed of one role at any repetition equals a seed of another role at
\* any repetition below SAMPLES_PER_ENTRY.
SeedRoles == {"seed_instance", "seed_model", "seed_challenge", "seed_distance"}
SeedsOf(role) == {experiments[x].parameters[role] : x \in 1..Len(experiments)}

C7_SeedStreamsDisjoint ==
  i = SAMPLES_PER_ENTRY =>
    \A r1 \in SeedRoles : \A r2 \in SeedRoles \ {r1} :
      Cardinality(SeedsOf(r1) \cup SeedsOf(r2)) = Cardinality(SeedsOf(r1)) + Cardinality(SeedsOf(r2))

C7_Witness ==
  /\ i = SAMPLES_PER_ENTRY
  /\ \A role \in SeedRoles : Cardinality(SeedsOf(role)) = SAMPLES_PER_ENTRY

\* C8: round_time never increases a duration, and a duration of at most 4 days
\* is truncated to whole seconds.
C8_RoundTimeTruncates ==
  rounded # <<>> =>
    /\ RatLE(RatInt(0), rounded)
    /\ RatLE(rounded, seconds)
    /\ RatLE(seconds, RatInt(FOUR_DAYS)) => rounded = RatInt(RatFloor(seconds))

\* C9: a whole number of seconds up to 4 days renders as minutes and zero-padded
\* seconds below one hour, and otherwise as hours (24 * days + hours) and the
\* remainder rounded to the nearest whole minute.
C9_TimeToStringForms ==
  (WholeUpToFourDays /\ text # <<>>) =>
    IF seconds[1] < 3600
    THEN text[1] = MinSecLabel(seconds[1] \div 60, seconds[1] % 60)
    ELSE \E m \in 0..60 :
           /\ 60 * m - (seconds[1] % 3600) <= 30
           /\ (seconds[1] % 3600) - 60 * m <= 30
           /\ text[1] = HourMinLabel(seconds[1] \div 3600, m)

C9_Witness ==
  /\ seconds = RatInt(5000)
  /\ rounded = <<>>
  /\ text = <<" 1h 23m">>

\* C10: the minutes of a label in the hours form lie in 0..59.
C10_MinutesBelowSixty ==
  (WholeUpToFourDays /\ seconds[1] >= 3600 /\ text # <<>>) =>
    \E h \in {seconds[1] \div 3600, seconds[1] \div 3600 + 1} : \E m \in 0..59 :
      text[1] = HourMinLabel(h, m)

====
